---- MODULE Spec2Model ----
(***************************************************************************)
(* A model of the market DNA helix visualiser:                             *)
(*   - DNAVisualizer (src/dna_visualiser/js/dna-visualizer.js): the facade *)
(*     that validates a segment payload, filters it by type and rebuilds   *)
(*     the helix group held by the scene;                                  *)
(*   - OrbitControls (src/dna_visualiser/js/orbit-controls.js): the camera *)
(*     controller and its pointer state machine.                           *)
(*                                                                         *)
(* Three specifications share the variables:                               *)
(*   Spec          the facade's public operations, in any order;           *)
(*   SpecValidate  validateData as a pure function of a bounded input;     *)
(*   SpecOrbit     the controller's DOM events, update, reset and dispose. *)
(***************************************************************************)
EXTENDS Integers, Sequences, FiniteSets, TLC

VARIABLES
  \* ---- DNAVisualizer ----
  config,          \* this.config: key -> value
  selectedType,    \* this.selectedType
  lastLoadedData,  \* this.lastLoadedData: NullData or a sequence of segments
  dnaGroup,        \* this.dnaGroup: id of a group, or NullId
  scene,           \* the groups this.scene holds (each carries its id)
  nextId,          \* identity of the next THREE.Group allocated
  lastCall,        \* the last facade call and how it ended
  \* ---- validateData as a pure function ----
  vIn, vOut, vpc,
  \* ---- filterSegmentsByType and calculateStats as pure functions ----
  fIn, fOut, fpc,
  sIn, sOut, spc,
  \* ---- OrbitControls ----
  orbit,           \* the controller's fields
  elemListeners,   \* listeners registered on this.domElement
  docListeners,    \* listeners registered on document
  camera,          \* the camera's position and the controller's target
  ticks,           \* update() calls made since construction
  inputs           \* pointer moves and wheel events handled since construction

vizVars   == <<config, selectedType, lastLoadedData, dnaGroup, scene, nextId, lastCall>>
valVars   == <<vIn, vOut, vpc>>
pureVars  == <<fIn, fOut, fpc, sIn, sOut, spc>>
orbitVars == <<orbit, elemListeners, docListeners, camera, ticks, inputs>>
vars      == <<vizVars, valVars, pureVars, orbitVars>>

(***************************************************************************)
(* JavaScript values.  Every value has the same shape, so that any two can *)
(* be compared: t is the type tag, n the number, s the string.             *)
(***************************************************************************)
Undefined == [t |-> "undefined", n |-> 0, s |-> ""]
Num(k)    == [t |-> "number", n |-> k, s |-> ""]
Str(x)    == [t |-> "string", n |-> 0, s |-> x]

\* ToBoolean: what `v && ...` tests.
Truthy(v) ==
  CASE v.t = "undefined" -> FALSE
    [] v.t = "null"      -> FALSE
    [] v.t = "number"    -> v.n # 0
    [] v.t = "string"    -> v.s # ""
    [] OTHER             -> TRUE

\* The segment fields validateData probes.
RequiredFields ==
  {"segment_type", "start_index", "end_index", "start_price", "end_price", "pct_change"}

(***************************************************************************)
(* An element of a parsed array: an object with fields f, or null, or a    *)
(* primitive.  A field the object lacks reads as Undefined, and so does    *)
(* every property of a primitive.                                          *)
(***************************************************************************)
NoFields == [k \in RequiredFields |-> Undefined]

Segment(type, si, ei, sp, ep, pct) ==
  [t |-> "object",
   f |-> [k \in RequiredFields |->
            CASE k = "segment_type" -> type
              [] k = "start_index"  -> si
              [] k = "end_index"    -> ei
              [] k = "start_price"  -> sp
              [] k = "end_price"    -> ep
              [] OTHER              -> pct]]

Without(e, k) == [e EXCEPT !.f[k] = Undefined]
NullEntry     == [t |-> "null", f |-> NoFields]
NumberEntry   == [t |-> "number", f |-> NoFields]

\* segment.<k>; reading a property of null is a TypeError (see Throws).
Get(e, k)   == e.f[k]
Throws(e)   == e.t = "null"

Abs(x) == IF x < 0 THEN -x ELSE x

(***************************************************************************)
(* filterSegmentsByType                                                    *)
(***************************************************************************)
\* filterSegmentsByType without the 'all' branch.
filterExactOnly(data, type) ==
  SelectSeq(data, LAMBDA e : Get(e, "segment_type") = Str(type))

filterSegmentsByType(data, type) ==
  IF type = "all" THEN data
  ELSE SelectSeq(data, LAMBDA e : Get(e, "segment_type") = Str(type))

(***************************************************************************)
(* validateData.  A parsed value is [kind, items]; items is empty unless   *)
(* kind = "array".  The result is [threw, value]: the filter callback      *)
(* reads segment.segment_type, which throws on a null element.             *)
(***************************************************************************)
Parsed(kind, items) == [kind |-> kind, items |-> items]

ValidSegment(e) ==
  /\ Truthy(Get(e, "segment_type"))
  /\ Get(e, "start_index") # Undefined
  /\ Get(e, "end_index")   # Undefined
  /\ Get(e, "start_price") # Undefined
  /\ Get(e, "end_price")   # Undefined
  /\ Get(e, "pct_change")  # Undefined

validateData(data) ==
  IF data.kind # "array" THEN [threw |-> FALSE, value |-> <<>>]
  ELSE IF \E i \in 1..Len(data.items) : Throws(data.items[i])
       THEN [threw |-> TRUE, value |-> <<>>]
       ELSE [threw |-> FALSE, value |-> SelectSeq(data.items, ValidSegment)]

(***************************************************************************)
(* The constructor's configuration, and the values the model sets.         *)
(* backboneThickness is kept in tenths (1.2 is 12).                        *)
(***************************************************************************)
ConfigKeys == {"helixTurns", "helixRadius", "backboneThickness", "height", "pointsPerTurn"}

InitConfig ==
  [k \in ConfigKeys |->
     CASE k = "helixTurns"        -> 15
       [] k = "helixRadius"       -> 10
       [] k = "backboneThickness" -> 12
       [] k = "height"            -> 200
       [] OTHER                   -> 32]

\* Keys a caller passes to setConfig: the recognized ones and "scale", which
\* the glue layer lists among its setters but the configuration does not hold.
SetKeys == {"helixTurns", "helixRadius", "height", "pointsPerTurn", "scale"}

SetValues(k) ==
  CASE k = "helixTurns"        -> {2}
    [] k = "helixRadius"       -> {5}
    [] k = "height"            -> {100}
    [] k = "pointsPerTurn"     -> {4}
    [] OTHER                   -> {3}

\* createDNAHelix's own locals: `const height = 200`, `const pointsPerTurn = 32`.
LocalHeight        == 200
LocalPointsPerTurn == 32

(***************************************************************************)
(* createDNAHelix.  Coordinates are exact: a point is (r, a, y) with r the *)
(* distance from the axis, a the azimuth in turns and y the height, a and  *)
(* y as fractions <<numerator, denominator>>; x = r cos(2 pi a) and        *)
(* z = r sin(2 pi a).                                                      *)
(***************************************************************************)
Point(r, a, y) == [r |-> r, a |-> a, y |-> y]

\* height * (0.5 - i/n)
HelixY(height, i, n) == <<height * (n - 2 * i), 2 * n>>
\* turns * i/n, in turns (angle = 2 pi turns t)
HelixAngle(turns, i, n) == <<turns * i, n>>
\* the same angle plus pi
OppositeAngle(turns, i, n) == <<2 * turns * i + n, 2 * n>>

BuildHeight        == LocalHeight
BuildPointsPerTurn == LocalPointsPerTurn

(***************************************************************************)
(* A backbone is held by the parameters of its sampling loop rather than   *)
(* by the list of points the loop pushes (481 of them at 15 turns):        *)
(* samples is the number of points pushed, and Sample(b, i) is the point   *)
(* pushed at loop index i.  opposite = 1 for the strand at angle + pi.     *)
(***************************************************************************)
Backbone(opposite) ==
  LET turns == config["helixTurns"]
      totalPoints == turns * BuildPointsPerTurn
  IN [kind     |-> "backbone",
      samples  |-> totalPoints + 1,
      radius   |-> config["helixRadius"],
      turns    |-> turns,
      height   |-> BuildHeight,
      opposite |-> opposite,
      tube     |-> config["backboneThickness"]]

Sample(b, i) ==
  Point(b.radius,
        IF b.opposite = 0 THEN HelixAngle(b.turns, i, b.samples - 1)
                          ELSE OppositeAngle(b.turns, i, b.samples - 1),
        HelixY(b.height, i, b.samples - 1))

Backbones == <<Backbone(0), Backbone(1)>>

\* The rung loop with the outer pulse's threshold at 10 in place of 8.
RungAndEffectsOuterAtTen(data, i) ==
  LET segment == data[i + 1]
      y      == HelixY(BuildHeight, i, Len(data))
      pointA == Point(config["helixRadius"], HelixAngle(config["helixTurns"], i, Len(data)), y)
      pointB == Point(config["helixRadius"], OppositeAngle(config["helixTurns"], i, Len(data)), y)
      centre == Point(0, <<0, 1>>, y)
      pctChange == Get(segment, "pct_change").n
      rung   == [kind |-> "rung", a |-> pointA, b |-> pointB, position |-> centre,
                 seg |-> segment]
      pulse  == [kind |-> "pulse", position |-> centre, seg |-> segment]
      outer  == [kind |-> "outerPulse", position |-> centre, seg |-> segment]
  IN IF Abs(pctChange) > 5
     THEN IF Abs(pctChange) > 10 THEN <<rung, pulse, outer>> ELSE <<rung, pulse>>
     ELSE <<rung>>

\* The primitives added for segment i (0-based) of data: the rung, then the
\* pulses its pct_change earns.
RungAndEffects(data, i) ==
  LET segment == data[i + 1]
      numSegments == Len(data)
      radius == config["helixRadius"]
      turns  == config["helixTurns"]
      y      == HelixY(BuildHeight, i, numSegments)
      pointA == Point(radius, HelixAngle(turns, i, numSegments), y)
      pointB == Point(radius, OppositeAngle(turns, i, numSegments), y)
      \* the midpoint of two diametrically opposite points lies on the axis
      centre == Point(0, <<0, 1>>, y)
      pctChange == Get(segment, "pct_change").n
      rung   == [kind |-> "rung", a |-> pointA, b |-> pointB, position |-> centre,
                 seg |-> segment]
      pulse  == [kind |-> "pulse", position |-> centre, seg |-> segment]
      outer  == [kind |-> "outerPulse", position |-> centre, seg |-> segment]
  IN IF Abs(pctChange) > 5
     THEN IF Abs(pctChange) > 8 THEN <<rung, pulse, outer>> ELSE <<rung, pulse>>
     ELSE <<rung>>

\* The rung loop running from the last segment to the first.
RECURSIVE RungsReversed(_, _)
RungsReversed(data, n) ==
  IF n = 0 THEN <<>> ELSE RungAndEffects(data, n - 1) \o RungsReversed(data, n - 1)

RECURSIVE Rungs(_, _)
Rungs(data, n) ==
  IF n = 0 THEN <<>> ELSE Rungs(data, n - 1) \o RungAndEffects(data, n - 1)

\* The group built, and this.dnaGroup afterwards: the empty-data return
\* leaves this.dnaGroup as it is.
createDNAHelix(data, id, current) ==
  IF Len(data) = 0
  THEN [group |-> [id |-> id, children |-> <<>>], dnaGroup |-> current]
  ELSE [group |-> [id |-> id, children |-> Backbones \o Rungs(data, Len(data))],
        dnaGroup |-> id]

(***************************************************************************)
(* The payloads handed to loadFromText, and JSON.parse on each.            *)
(***************************************************************************)
SegOptimal10 == Segment(Str("optimal"), Num(0), Num(10), Num(100), Num(110), Num(10))
SegOptimal6  == Segment(Str("optimal"), Num(30), Num(31), Num(50), Num(53), Num(6))
SegNegative2 == Segment(Str("negative"), Num(10), Num(20), Num(110), Num(108), Num(-2))
SegNegative9 == Segment(Str("negative"), Num(20), Num(25), Num(108), Num(98), Num(-9))
SegNoPct     == Without(SegOptimal6, "pct_change")
SegEmptyType == Segment(Str(""), Num(0), Num(10), Num(100), Num(110), Num(10))

Texts ==
  {"not json", "null", "5", "[]", "[invalid]", "[null,segment]", "[mixed]", "[negative]"}

\* [ok, value]: ok is FALSE when JSON.parse throws a SyntaxError.
JSONParse(text) ==
  CASE text = "not json"       -> [ok |-> FALSE, value |-> Parsed("none", <<>>)]
    [] text = "null"           -> [ok |-> TRUE, value |-> Parsed("null", <<>>)]
    [] text = "5"              -> [ok |-> TRUE, value |-> Parsed("number", <<>>)]
    [] text = "[]"             -> [ok |-> TRUE, value |-> Parsed("array", <<>>)]
    [] text = "[invalid]"      -> [ok |-> TRUE, value |-> Parsed("array", <<SegNoPct>>)]
    [] text = "[null,segment]" -> [ok |-> TRUE, value |-> Parsed("array", <<NullEntry, SegOptimal10>>)]
    [] text = "[mixed]"        ->
         [ok |-> TRUE,
          value |-> Parsed("array", <<SegOptimal10, SegNegative2, SegNoPct, SegOptimal6>>)]
    [] OTHER                   -> [ok |-> TRUE, value |-> Parsed("array", <<SegNegative9>>)]

\* Types the type buttons select.
Types == {"optimal", "negative", "all"}

\* Data a caller hands to rebuildDNA directly.
DirectData == {<<>>, <<SegOptimal10>>}

\* Groups allocated in one run of the model.
MaxBuilds == 3

NullId   == 0
NullData == [set |-> FALSE, segs |-> <<>>]
Data(s)  == [set |-> TRUE, segs |-> s]

Call(op, arg, result) == [op |-> op, arg |-> arg, result |-> result]

(***************************************************************************)
(* The facade's operations.                                                *)
(***************************************************************************)
\* clearScene: the scene and this.dnaGroup afterwards.
clearScene ==
  [scene    |-> IF dnaGroup # NullId THEN {g \in scene : g.id # dnaGroup} ELSE scene,
   dnaGroup |-> NullId]

rebuildDNA(data) ==
  LET cleared == clearScene
      built   == createDNAHelix(data, nextId, cleared.dnaGroup)
  IN /\ nextId <= MaxBuilds
     /\ scene' = cleared.scene \cup {built.group}
     /\ dnaGroup' = built.dnaGroup
     /\ nextId' = nextId + 1

\* setConfig without the hasOwnProperty test: any key is stored.
SetConfigAnyKey(key, value) ==
  /\ config' = [k \in DOMAIN config \cup {key} |-> IF k = key THEN value ELSE config[k]]
  /\ lastCall' = Call("setConfig", key, "void")
  /\ UNCHANGED <<selectedType, lastLoadedData, dnaGroup, scene, nextId>>

SetConfig(key, value) ==
  /\ config' = IF key \in DOMAIN config THEN [config EXCEPT ![key] = value] ELSE config
  /\ lastCall' = Call("setConfig", key, "void")
  /\ UNCHANGED <<selectedType, lastLoadedData, dnaGroup, scene, nextId>>

SetSelectedType(type) ==
  /\ selectedType' = type
  /\ lastCall' = Call("setSelectedType", type, "void")
  /\ UNCHANGED <<config, lastLoadedData, dnaGroup, scene, nextId>>

RebuildDNA(data) ==
  /\ rebuildDNA(data)
  /\ lastCall' = Call("rebuildDNA", "", "group")
  /\ UNCHANGED <<config, selectedType, lastLoadedData>>

UpdateVisualization ==
  /\ IF lastLoadedData.set
     THEN rebuildDNA(filterSegmentsByType(lastLoadedData.segs, selectedType))
     ELSE UNCHANGED <<dnaGroup, scene, nextId>>
  /\ lastCall' = Call("updateVisualization", "", "void")
  /\ UNCHANGED <<config, selectedType, lastLoadedData>>

\* loadFromText without the try/catch around JSON.parse.
loadOutcomeUncaught(text) ==
  LET parsed == JSONParse(text)
      validated == validateData(parsed.value)
  IN IF ~parsed.ok \/ parsed.value.kind = "null" THEN "threw"
     ELSE IF validated.threw THEN "threw"
     ELSE IF Len(validated.value) = 0 THEN "null"
     ELSE "group"

\* How loadFromText(text) ends: "null" (an early return), "threw" (an
\* exception leaves the call) or "group" (the rebuilt group is returned).
loadOutcome(text) ==
  LET parsed == JSONParse(text)
      \* the try block: JSON.parse, then rawData.length (a TypeError on null)
      caught == ~parsed.ok \/ parsed.value.kind = "null"
      validated == validateData(parsed.value)
  IN IF caught THEN "null"
     ELSE IF validated.threw THEN "threw"
     ELSE IF Len(validated.value) = 0 THEN "null"
     ELSE "group"

\* loadFromText that stores the filtered segments as lastLoadedData.
LoadFromTextStoresFiltered(text) ==
  LET outcome == loadOutcome(text)
      data    == validateData(JSONParse(text).value).value
  IN /\ IF outcome = "group"
        THEN /\ lastLoadedData' = Data(filterSegmentsByType(data, selectedType))
             /\ rebuildDNA(filterSegmentsByType(data, selectedType))
        ELSE UNCHANGED <<lastLoadedData, dnaGroup, scene, nextId>>
     /\ lastCall' = Call("loadFromText", JSONParse(text).value.kind, outcome)
     /\ UNCHANGED <<config, selectedType>>

LoadFromText(text) ==
  LET outcome == loadOutcome(text)
      data    == validateData(JSONParse(text).value).value
  IN /\ IF outcome = "group"
        THEN /\ lastLoadedData' = Data(data)
             /\ rebuildDNA(filterSegmentsByType(data, selectedType))
        ELSE UNCHANGED <<lastLoadedData, dnaGroup, scene, nextId>>
     /\ lastCall' = Call("loadFromText", JSONParse(text).value.kind, outcome)
     /\ UNCHANGED <<config, selectedType>>

VizInit ==
  /\ config = InitConfig
  /\ selectedType = "optimal"
  /\ lastLoadedData = NullData
  /\ dnaGroup = NullId
  /\ scene = {}
  /\ nextId = 1
  /\ lastCall = Call("constructor", "", "void")

(***************************************************************************)
(* validateData as a pure function: Init draws the parsed value, Validate  *)
(* applies validateData to it.                                             *)
(***************************************************************************)
MaxLen == 3

Entries == {SegOptimal10, SegNegative2, SegNoPct, SegEmptyType, NullEntry, NumberEntry,
            Without(SegOptimal10, "segment_type"), Without(SegNegative2, "start_index")}

RECURSIVE SeqsUpTo(_, _)
SeqsUpTo(S, n) ==
  IF n = 0 THEN {<<>>}
  ELSE LET shorter == SeqsUpTo(S, n - 1)
       IN shorter \cup {Append(q, e) : q \in shorter, e \in S}

\* Ten entries of which the 3rd, 6th and 9th lack pct_change.
TenWithThreeLacking ==
  [i \in 1..10 |->
     LET e == Segment(Str(IF i % 2 = 0 THEN "optimal" ELSE "negative"),
                      Num(i), Num(i + 1), Num(100 + i), Num(101 + i), Num(i - 5))
     IN IF i % 3 = 0 THEN Without(e, "pct_change") ELSE e]

ValInputs ==
  {Parsed("array", q) : q \in SeqsUpTo(Entries, MaxLen) \cup {TenWithThreeLacking}}
    \cup {Parsed(k, <<>>) : k \in {"null", "number", "string", "object"}}

NoResult == [threw |-> FALSE, value |-> <<>>]

ValInit ==
  /\ vIn \in ValInputs
  /\ vOut = NoResult
  /\ vpc = "call"

ValIdle ==
  /\ vIn = Parsed("null", <<>>)
  /\ vOut = NoResult
  /\ vpc = "idle"

Validate ==
  /\ vpc = "call"
  /\ vOut' = validateData(vIn)
  /\ vpc' = "done"
  /\ UNCHANGED <<vIn, vizVars, pureVars, orbitVars>>

(***************************************************************************)
(* filterSegmentsByType as a pure function of a bounded input.             *)
(* Array.prototype.filter builds a new array and the "all" branch returns  *)
(* its argument untouched, so the call leaves the input as it was.         *)
(***************************************************************************)
FilterEntries ==
  {SegOptimal10, SegOptimal6, SegNegative2, SegEmptyType,
   Without(SegNegative9, "segment_type")}

FilterTypes == {"all", "optimal", "negative", "neutral"}

FilterInputs ==
  {[data |-> q, type |-> t] : q \in SeqsUpTo(FilterEntries, MaxLen), t \in FilterTypes}

FilterInit ==
  /\ fIn \in FilterInputs
  /\ fOut = <<>>
  /\ fpc = "call"

FilterIdle ==
  /\ fIn = [data |-> <<>>, type |-> "all"]
  /\ fOut = <<>>
  /\ fpc = "idle"

Filter ==
  /\ fpc = "call"
  /\ fOut' = filterSegmentsByType(fIn.data, fIn.type)
  /\ fpc' = "done"
  /\ UNCHANGED <<fIn, sIn, sOut, spc, vizVars, valVars, orbitVars>>

(***************************************************************************)
(* calculateStats(data = null).  A number is formatted by toFixed(2) as    *)
(* the nearest count of hundredths (the larger one on a tie), written as   *)
(* its whole part, a point and two digits.                                 *)
(***************************************************************************)
RECURSIVE SumAbs(_)
SumAbs(q) ==
  IF q = <<>> THEN 0 ELSE Abs(Get(Head(q), "pct_change").n) + SumAbs(Tail(q))

\* (num / den).toFixed(2), for num >= 0 and den > 0
ToFixed2(num, den) ==
  LET hundredths == (200 * num + den) \div (2 * den)
  IN [whole |-> hundredths \div 100, digits |-> hundredths % 100]

\* typeCounts: one key per segment_type met, counting its segments
TypeCounts(q) ==
  LET keys == {Get(q[i], "segment_type").s : i \in 1..Len(q)}
  IN [k \in keys |-> Cardinality({i \in 1..Len(q) : Get(q[i], "segment_type").s = k})]

NoStats == [none |-> TRUE]

\* calculateStats that adds up the rises only, dropping every fall.
calculateStatsRisesOnly(data, loaded) ==
  LET dataToUse == IF data.set THEN data ELSE loaded
      q == dataToUse.segs
      total == SumAbs(SelectSeq(q, LAMBDA e : Get(e, "pct_change").n > 0))
  IN IF ~dataToUse.set \/ Len(q) = 0 THEN NoStats
     ELSE [none |-> FALSE,
           totalSegments |-> Len(q),
           typeCounts |-> TypeCounts(q),
           volatility |-> [number |-> ToFixed2(total, Len(q)), suffix |-> "%"]]

\* data and loaded are NullData (null) or Data(q); an array, even an empty
\* one, is truthy in `data || this.lastLoadedData`.
calculateStats(data, loaded) ==
  LET dataToUse == IF data.set THEN data ELSE loaded
      q == dataToUse.segs
  IN IF ~dataToUse.set \/ Len(q) = 0 THEN NoStats
     ELSE [none |-> FALSE,
           totalSegments |-> Len(q),
           typeCounts |-> TypeCounts(q),
           volatility |-> [number |-> ToFixed2(SumAbs(q), Len(q)), suffix |-> "%"]]

SegOptimal4 == Segment(Str("optimal"), Num(0), Num(1), Num(100), Num(104), Num(4))

StatsEntries == {SegOptimal4, SegNegative2, SegNegative9, SegOptimal10}

StatsInputs ==
  {[data |-> d, loaded |-> l] :
     d \in {NullData} \cup {Data(q) : q \in SeqsUpTo(StatsEntries, MaxLen)},
     l \in {NullData, Data(<<SegOptimal10, SegNegative9>>)}}

StatsInit ==
  /\ sIn \in StatsInputs
  /\ sOut = NoStats
  /\ spc = "call"

StatsIdle ==
  /\ sIn = [data |-> NullData, loaded |-> NullData]
  /\ sOut = NoStats
  /\ spc = "idle"

CalculateStats ==
  /\ spc = "call"
  /\ sOut' = calculateStats(sIn.data, sIn.loaded)
  /\ spc' = "done"
  /\ UNCHANGED <<sIn, fIn, fOut, fpc, vizVars, valVars, orbitVars>>

(***************************************************************************)
(* OrbitControls.                                                          *)
(*                                                                         *)
(* Angles are whole numbers of 1/360000 of a turn, so that the per-pixel   *)
(* rotation (2 pi / clientHeight), the auto-rotate step (2 pi / 3600) and  *)
(* the polar clamp (0.01 rad, 573 such units) are all exact or ordered as  *)
(* the reals are.                                                          *)
(*                                                                         *)
(* Lengths are symbolic.  The radius is base * 0.95^exp, where base 0 is   *)
(* the initial camera distance and base b > 0 the distance found after the *)
(* b-th jump of the target (reset() moves the target and not the camera).  *)
(* A vector component is a sum of pixel counts, each scaled by 0.002 times *)
(* one such length: a function from lengths to counts.                     *)
(***************************************************************************)
Pos(x, y) == [x |-> x, y |-> y]

FullTurn     == 360000
HalfTurn     == 180000
EpsPhi       == 573
ClientHeight == 600
\* acos(10 / sqrt(10100)): the polar angle of the camera at (0, 10, 100)
InitPhi      == 84289
\* 2 pi / 60 / 60, per unit of autoRotateSpeed
AutoRotateStep == 100

MaxInputs   == 2    \* pointer moves and wheel events the handlers run on
MaxTicks    == 2    \* update() calls after construction
MaxEvents   == 3    \* handled inputs and update() calls, taken together
MaxJumps    == 1    \* jumps of the target away from the camera's anchor
MaxFlagsOff == 1    \* public fields a caller holds off their defaults at once

\* Pointer positions (clientX, clientY) the events carry.
Pointers == {Pos(0, 0), Pos(2, 200)}
Buttons   == {0, 1, 2, 3}
WheelDeltas == {-1, 0, 1}
Flags == {"enabled", "enableZoom", "enableRotate", "enablePan", "autoRotate"}
\* The speed fields, and the values a caller gives them.
Speeds == {"zoomSpeed", "rotateSpeed", "panSpeed", "autoRotateSpeed"}
SpeedValues == {1, 2}

Length(b, e) == [base |-> b, exp |-> e]

\* A sum holds the lengths whose count is not 0.
ZeroSum    == [k \in {} |-> 0]
Coef(u, k) == IF k \in DOMAIN u THEN u[k] ELSE 0
AddSum(u, v) ==
  LET D == {k \in DOMAIN u \cup DOMAIN v : Coef(u, k) + Coef(v, k) # 0}
  IN [k \in D |-> Coef(u, k) + Coef(v, k)]
\* u with n more pixels scaled by length k
Plus(u, k, n) == AddSum(u, [j \in {k} |-> n])

ZeroVec == [x |-> ZeroSum, y |-> ZeroSum, z |-> ZeroSum]
AddVec(u, v) == [x |-> AddSum(u.x, v.x), y |-> AddSum(u.y, v.y), z |-> AddSum(u.z, v.z)]

OrbitFields ==
  [enabled |-> TRUE, enableZoom |-> TRUE, zoomSpeed |-> 1,
   enableRotate |-> TRUE, rotateSpeed |-> 1,
   enablePan |-> TRUE, panSpeed |-> 1,
   autoRotate |-> FALSE, autoRotateSpeed |-> 2,
   state |-> "none",
   sphericalDelta |-> [theta |-> 0, phi |-> 0],
   scale |-> 0,                \* _scale = 0.95^scale
   panOffset |-> ZeroVec,
   rotateStart |-> Pos(0, 0),
   panStart |-> Pos(0, 0)]

\* camera.position = anchor + the offset whose spherical coordinates are sph;
\* anchor = target except between a jump of the target and the next update.
CameraInit ==
  [anchor |-> ZeroVec,
   sph    |-> [radius |-> Length(0, 0), phi |-> InitPhi, theta |-> 0],
   target |-> ZeroVec]

ElementEvents  == {"mousedown", "wheel", "contextmenu"}
DocumentEvents == {"mousemove", "mouseup"}

\* camera.position.distanceTo(this.target)
Distance ==
  IF camera.anchor = camera.target THEN camera.sph.radius
  ELSE Length(camera.sph.radius.base + 1, 0)

\* atan2's range: (-pi, pi]
WrapTheta(a) ==
  LET m == a % FullTurn IN IF m > HalfTurn THEN m - FullTurn ELSE m

\* the clamp without its Math.max(0.01, ...)
ClampAbove(lo, hi, v) == IF v > hi THEN hi ELSE v

Clamp(lo, hi, v) == IF v < lo THEN lo ELSE IF v > hi THEN hi ELSE v

\* _onMouseDown without the enableRotate and enablePan tests.
onMouseDownUngated(button, x, y) ==
  IF ~orbit.enabled THEN orbit
  ELSE CASE button = 0 -> [orbit EXCEPT !.state = "rotate", !.rotateStart = Pos(x, y)]
         [] button = 1 -> [orbit EXCEPT !.state = "pan", !.panStart = Pos(x, y)]
         [] button = 2 -> [orbit EXCEPT !.state = "pan", !.panStart = Pos(x, y)]
         [] OTHER -> orbit

\* _onMouseDown: the controller's fields afterwards
onMouseDown(button, x, y) ==
  IF ~orbit.enabled THEN orbit
  ELSE CASE button = 0 ->
              IF orbit.enableRotate
              THEN [orbit EXCEPT !.state = "rotate", !.rotateStart = Pos(x, y)]
              ELSE orbit
         [] button = 1 ->
              IF orbit.enablePan
              THEN [orbit EXCEPT !.state = "pan", !.panStart = Pos(x, y)]
              ELSE orbit
         [] button = 2 ->
              IF orbit.enablePan
              THEN [orbit EXCEPT !.state = "pan", !.panStart = Pos(x, y)]
              ELSE orbit
         [] OTHER -> orbit

\* _onMouseDown registering the mousemove listener only.
listenersAfterMouseDownMoveOnly(o) ==
  IF o.enabled /\ o.state # "none" THEN docListeners \cup {"mousemove"} ELSE docListeners

\* _onMouseDown's registrations on document
listenersAfterMouseDown(o) ==
  IF o.enabled /\ o.state # "none" THEN docListeners \cup DocumentEvents ELSE docListeners

\* _onMouseMove without `this._rotateStart.copy(this._rotateEnd)`.
onMouseMoveKeepsAnchor(x, y) ==
  IF ~orbit.enabled THEN orbit
  ELSE CASE orbit.state = "rotate" ->
              [orbit EXCEPT
                 !.sphericalDelta.theta =
                    @ - (FullTurn * (x - orbit.rotateStart.x) * orbit.rotateSpeed)
                          \div ClientHeight,
                 !.sphericalDelta.phi =
                    @ - (FullTurn * (y - orbit.rotateStart.y) * orbit.rotateSpeed)
                          \div ClientHeight]
         [] orbit.state = "pan" ->
              [orbit EXCEPT
                 !.panOffset.x = Plus(@, Distance, orbit.panStart.x - x),
                 !.panOffset.y = Plus(@, Distance, y - orbit.panStart.y),
                 !.panStart = Pos(x, y)]
         [] OTHER -> orbit

\* _onMouseMove
onMouseMove(x, y) ==
  IF ~orbit.enabled THEN orbit
  ELSE CASE orbit.state = "rotate" ->
              LET dx == x - orbit.rotateStart.x
                  dy == y - orbit.rotateStart.y
              IN [orbit EXCEPT
                    !.sphericalDelta.theta =
                       @ - (FullTurn * dx * orbit.rotateSpeed) \div ClientHeight,
                    !.sphericalDelta.phi =
                       @ - (FullTurn * dy * orbit.rotateSpeed) \div ClientHeight,
                    !.rotateStart = Pos(x, y)]
         [] orbit.state = "pan" ->
              LET dx == x - orbit.panStart.x
                  dy == y - orbit.panStart.y
              IN [orbit EXCEPT
                    !.panOffset.x = Plus(@, Distance, 0 - dx),
                    !.panOffset.y = Plus(@, Distance, dy),
                    !.panStart = Pos(x, y)]
         [] OTHER -> orbit

\* _onMouseUp without `this._state = 'none'`.
onMouseUpKeepsState == orbit

\* _onMouseUp
onMouseUp == [orbit EXCEPT !.state = "none"]

\* _onMouseWheel without the enableZoom test.
onMouseWheelUngated(deltaY) ==
  IF ~orbit.enabled THEN orbit
  ELSE IF deltaY > 0 THEN [orbit EXCEPT !.scale = @ - orbit.zoomSpeed]
  ELSE IF deltaY < 0 THEN [orbit EXCEPT !.scale = @ + orbit.zoomSpeed]
  ELSE orbit

\* _onMouseWheel
onMouseWheel(deltaY) ==
  IF ~orbit.enabled \/ ~orbit.enableZoom THEN orbit
  ELSE IF deltaY > 0 THEN [orbit EXCEPT !.scale = @ - orbit.zoomSpeed]
  ELSE IF deltaY < 0 THEN [orbit EXCEPT !.scale = @ + orbit.zoomSpeed]
  ELSE orbit

(***************************************************************************)
(* update().  setFromVector3 reads the offset camera.position - target.    *)
(* While anchor = target that offset is the one update last wrote, with    *)
(* the azimuth brought back into atan2's range.  After a jump of the       *)
(* target the offset is some other vector: its length is a new symbolic    *)
(* length, and its angles are drawn from the ranges of acos and atan2.     *)
(***************************************************************************)
JumpPhis   == {0, InitPhi, HalfTurn}
JumpThetas == {0, HalfTurn}

OffsetSpherical ==
  IF camera.anchor = camera.target
  THEN {[radius |-> camera.sph.radius, phi |-> camera.sph.phi,
         theta |-> WrapTheta(camera.sph.theta)]}
  ELSE {[radius |-> Distance, phi |-> p, theta |-> a] : p \in JumpPhis, a \in JumpThetas}

\* the auto-rotation without the `this._state === 'none'` test
autoRotationAnyMode ==
  IF orbit.autoRotate THEN AutoRotateStep * orbit.autoRotateSpeed ELSE 0

\* the azimuth update() injects before it reads the deltas
autoRotation ==
  IF orbit.autoRotate /\ orbit.state = "none"
  THEN AutoRotateStep * orbit.autoRotateSpeed
  ELSE 0

\* update() without `position.copy(this.target).add(offset)`: the target
\* moves and the camera stays.
updatedCameraLeavesPosition(s0) ==
  [anchor |-> camera.anchor,
   sph    |-> [radius |-> Length(s0.radius.base, s0.radius.exp + orbit.scale),
               phi    |-> Clamp(EpsPhi, HalfTurn - EpsPhi, s0.phi + orbit.sphericalDelta.phi),
               theta  |-> s0.theta + (orbit.sphericalDelta.theta - autoRotation)],
   target |-> AddVec(camera.target, orbit.panOffset)]

\* the camera after update(), s0 being the offset's spherical coordinates
updatedCamera(s0) ==
  LET theta  == s0.theta + (orbit.sphericalDelta.theta - autoRotation)
      phi    == Clamp(EpsPhi, HalfTurn - EpsPhi, s0.phi + orbit.sphericalDelta.phi)
      radius == Length(s0.radius.base, s0.radius.exp + orbit.scale)
      target == AddVec(camera.target, orbit.panOffset)
  IN [anchor |-> target,
      sph    |-> [radius |-> radius, phi |-> phi, theta |-> theta],
      target |-> target]

\* update() without `this._sphericalDelta.set(0, 0, 0)`.
updatedOrbitKeepsDeltas ==
  [orbit EXCEPT !.panOffset = ZeroVec, !.scale = 0]

\* the controller's fields after update(): the accumulators are cleared
updatedOrbit ==
  [orbit EXCEPT !.sphericalDelta = [theta |-> 0, phi |-> 0],
                !.panOffset = ZeroVec,
                !.scale = 0]

Update ==
  /\ ticks < MaxTicks /\ ticks + inputs < MaxEvents
  /\ \E s0 \in OffsetSpherical : camera' = updatedCamera(s0)
  /\ orbit' = updatedOrbit
  /\ ticks' = ticks + 1
  /\ UNCHANGED inputs
  /\ UNCHANGED <<elemListeners, docListeners>>

\* reset(): the controller's fields afterwards
resetOrbit ==
  [orbit EXCEPT !.state = "none",
                !.sphericalDelta = [theta |-> 0, phi |-> 0],
                !.panOffset = ZeroVec,
                !.scale = 0]

Reset ==
  /\ camera.target = ZeroVec \/ camera.sph.radius.base < MaxJumps
  /\ camera' = [camera EXCEPT !.target = ZeroVec]
  /\ orbit' = resetOrbit
  /\ UNCHANGED <<elemListeners, docListeners, ticks, inputs>>

\* dispose() without the two document.removeEventListener calls.
disposeDocumentForgotten == docListeners

\* dispose(): the listeners left on the element and on document
disposeElement  == elemListeners \ {"mousedown", "wheel", "contextmenu"}
disposeDocument == docListeners \ {"mousemove", "mouseup"}

Dispose ==
  /\ elemListeners' = disposeElement
  /\ docListeners' = disposeDocument
  /\ UNCHANGED <<orbit, camera, ticks, inputs>>

\* A caller assigns one of the public enable fields.
SetFlag(f, b) ==
  /\ orbit[f] # b
  /\ orbit' = [orbit EXCEPT ![f] = b]
  /\ Cardinality({g \in Flags \cup Speeds : orbit'[g] # OrbitFields[g]}) <= MaxFlagsOff
  /\ UNCHANGED <<elemListeners, docListeners, camera, ticks, inputs>>

\* A caller assigns one of the public speed fields (setAutoRotateSpeed, or
\* a plain assignment as the application's sliders make).
SetSpeed(f, v) ==
  /\ orbit[f] # v
  /\ orbit' = [orbit EXCEPT ![f] = v]
  /\ Cardinality({g \in Flags \cup Speeds : orbit'[g] # OrbitFields[g]}) <= MaxFlagsOff
  /\ UNCHANGED <<elemListeners, docListeners, camera, ticks, inputs>>

(***************************************************************************)
(* DOM events.  An event runs the handler registered for it, if any.       *)
(***************************************************************************)
MouseDownEvent(button, x, y) ==
  /\ IF "mousedown" \in elemListeners
     THEN /\ orbit' = onMouseDown(button, x, y)
          /\ docListeners' = listenersAfterMouseDown(orbit')
     ELSE UNCHANGED <<orbit, docListeners>>
  /\ UNCHANGED <<elemListeners, camera, ticks, inputs>>

\* A mousemove whose handler moves the target by the pan at once.
MouseMoveEventMovesTarget(x, y) ==
  /\ IF "mousemove" \in docListeners
     THEN /\ inputs < MaxInputs /\ ticks + inputs < MaxEvents
          /\ orbit' = onMouseMove(x, y)
          /\ camera' = [camera EXCEPT !.target = AddVec(@, orbit'.panOffset)]
          /\ inputs' = inputs + 1
     ELSE UNCHANGED <<orbit, inputs, camera>>
  /\ UNCHANGED <<elemListeners, docListeners, ticks>>

MouseMoveEvent(x, y) ==
  /\ IF "mousemove" \in docListeners
     THEN /\ inputs < MaxInputs /\ ticks + inputs < MaxEvents
          /\ orbit' = onMouseMove(x, y)
          /\ inputs' = inputs + 1
     ELSE UNCHANGED <<orbit, inputs>>
  /\ UNCHANGED <<elemListeners, docListeners, camera, ticks>>

MouseUpEvent ==
  /\ IF "mouseup" \in docListeners
     THEN orbit' = onMouseUp /\ docListeners' = docListeners \ {"mousemove", "mouseup"}
     ELSE UNCHANGED <<orbit, docListeners>>
  /\ UNCHANGED <<elemListeners, camera, ticks, inputs>>

WheelEvent(deltaY) ==
  /\ IF "wheel" \in elemListeners
     THEN /\ inputs < MaxInputs /\ ticks + inputs < MaxEvents
          /\ orbit' = onMouseWheel(deltaY)
          /\ inputs' = inputs + 1
     ELSE UNCHANGED <<orbit, inputs>>
  /\ UNCHANGED <<elemListeners, docListeners, camera, ticks>>

\* _onContextMenu only calls preventDefault
ContextMenuEvent ==
  /\ UNCHANGED <<orbit, elemListeners, docListeners, camera, ticks, inputs>>

\* The controller after its constructor: listeners added, first update() done.
OrbitInit ==
  /\ orbit = OrbitFields
  /\ elemListeners = ElementEvents
  /\ docListeners = {}
  /\ camera = CameraInit
  /\ ticks = 0
  /\ inputs = 0

(***************************************************************************)
(* The specifications.                                                     *)
(***************************************************************************)
Init == VizInit /\ ValIdle /\ FilterIdle /\ StatsIdle /\ OrbitInit

Next ==
  \/ \E text \in Texts : LoadFromText(text) /\ UNCHANGED <<valVars, pureVars, orbitVars>>
  \/ \E type \in Types : SetSelectedType(type) /\ UNCHANGED <<valVars, pureVars, orbitVars>>
  \/ \E key \in SetKeys : \E value \in SetValues(key) :
        SetConfig(key, value) /\ UNCHANGED <<valVars, pureVars, orbitVars>>
  \/ UpdateVisualization /\ UNCHANGED <<valVars, pureVars, orbitVars>>
  \/ \E data \in DirectData : RebuildDNA(data) /\ UNCHANGED <<valVars, pureVars, orbitVars>>

Spec == Init /\ [][Next]_vars

InitValidate == VizInit /\ ValInit /\ FilterIdle /\ StatsIdle /\ OrbitInit
NextValidate == Validate
SpecValidate == InitValidate /\ [][NextValidate]_vars

InitFilter == VizInit /\ ValIdle /\ FilterInit /\ StatsIdle /\ OrbitInit
NextFilter == Filter
SpecFilter == InitFilter /\ [][NextFilter]_vars

InitStats == VizInit /\ ValIdle /\ FilterIdle /\ StatsInit /\ OrbitInit
NextStats == CalculateStats
SpecStats == InitStats /\ [][NextStats]_vars

NextOrbit ==
  \/ \E b \in Buttons, p \in Pointers :
        MouseDownEvent(b, p.x, p.y) /\ UNCHANGED <<vizVars, valVars, pureVars>>
  \/ \E p \in Pointers : MouseMoveEvent(p.x, p.y) /\ UNCHANGED <<vizVars, valVars, pureVars>>
  \/ MouseUpEvent /\ UNCHANGED <<vizVars, valVars, pureVars>>
  \/ \E d \in WheelDeltas : WheelEvent(d) /\ UNCHANGED <<vizVars, valVars, pureVars>>
  \/ ContextMenuEvent /\ UNCHANGED <<vizVars, valVars, pureVars>>
  \/ Update /\ UNCHANGED <<vizVars, valVars, pureVars>>
  \/ Reset /\ UNCHANGED <<vizVars, valVars, pureVars>>
  \/ Dispose /\ UNCHANGED <<vizVars, valVars, pureVars>>
  \/ \E f \in Flags, b \in BOOLEAN : SetFlag(f, b) /\ UNCHANGED <<vizVars, valVars, pureVars>>
  \/ \E f \in Speeds, v \in SpeedValues :
        SetSpeed(f, v) /\ UNCHANGED <<vizVars, valVars, pureVars>>

SpecOrbit == Init /\ [][NextOrbit]_vars

(***************************************************************************)
(* Claims about the facade (Spec).                                         *)
(***************************************************************************)

\* C1 (as claimed): once a rebuild has run, the scene holds exactly the group
\* of the most recent rebuild and nothing built earlier, and getDNAGroup()
\* returns that group; before any rebuild the scene holds no group.
C1_OneCurrentGroup ==
  IF nextId = 1
  THEN scene = {} /\ dnaGroup = NullId
  ELSE /\ \A g \in scene : g.id = nextId - 1
       /\ scene # {}
       /\ dnaGroup = nextId - 1

MalformedTexts == {"not json", "null", "5"}
ZeroValidTexts == {"[]", "[invalid]"}

\* C5: loadFromText on an unparsable payload, or on one that parses to a
\* value that is no array, returns (null) without throwing and leaves
\* lastLoadedData, the current group, the scene and every other field of
\* the facade as they were.
C5_MalformedLoadKeepsState ==
  [][\A text \in MalformedTexts :
       LoadFromText(text) =>
         /\ lastCall'.result = "null"
         /\ UNCHANGED <<lastLoadedData, dnaGroup, scene, config, selectedType, nextId>>]_vars

\* C5's case: a malformed load returned while a helix built from loaded
\* data was displayed.
C5_Witness ==
  /\ lastCall.op = "loadFromText"
  /\ lastCall.arg \in {"none", "number"}
  /\ lastLoadedData.set
  /\ \E g \in scene : g.id = dnaGroup /\ Len(g.children) > 0

\* C8 (as claimed): a load whose payload is an array with no valid entry
\* rebuilds: afterwards the scene holds one group, newly built and empty,
\* in place of the previous helix, and the load does not end as an error
\* does.
C8_EmptyLoadRebuilds ==
  [][\A text \in ZeroValidTexts :
       LoadFromText(text) =>
         /\ nextId' = nextId + 1
         /\ scene' = {[id |-> nextId, children |-> <<>>]}
         /\ lastCall'.result = "group"]_vars

\* C9: setConfig(key, value) stores value under key when key is a key of
\* the configuration, and otherwise changes no configuration field and adds
\* none; either way it raises no error and rebuilds nothing: the current
\* group, the scene and the loaded data are as before.
C9_SetConfigOnlyKnownKeys ==
  [][\A key \in SetKeys : \A value \in SetValues(key) :
       SetConfig(key, value) =>
         /\ config' = IF key \in ConfigKeys THEN [config EXCEPT ![key] = value] ELSE config
         /\ DOMAIN config' = ConfigKeys
         /\ lastCall'.result = "void"
         /\ UNCHANGED <<dnaGroup, scene, nextId, lastLoadedData, selectedType>>]_vars

\* C9's case: an unknown key was just set, a known key was set before it,
\* and the displayed helix is still the one built with the old value.
C9_Witness ==
  /\ lastCall = Call("setConfig", "scale", "void")
  /\ config["helixTurns"] = 2
  /\ \E g \in scene : g.id = dnaGroup /\ Len(g.children) > 0 /\ g.children[1].turns = 15

\* a/b = c/d, for fractions <<numerator, denominator>>
SameFraction(p, q) == p[1] * q[2] = q[1] * p[2]

\* C10 (as claimed): a group built from N > 0 segments honours the height h
\* and pointsPerTurn p of the configuration it is built under: each backbone
\* has turns*p + 1 samples, sample i at y = h(0.5 - i/(turns*p)), and rung
\* i of N lies at y = h(0.5 - i/N).
C10_ConfigHonoured ==
  [][\A g \in scene' :
       (nextId' = nextId + 1 /\ g.id = nextId /\ Len(g.children) > 0) =>
         LET h == config["height"]
             total == config["helixTurns"] * config["pointsPerTurn"]
             rungs == SelectSeq(g.children, LAMBDA c : c.kind = "rung")
         IN /\ \A j \in 1..2 :
                 /\ g.children[j].kind = "backbone"
                 /\ g.children[j].samples = total + 1
                 /\ \A i \in 0..total :
                      SameFraction(Sample(g.children[j], i).y, HelixY(h, i, total))
            /\ \A i \in 1..Len(rungs) :
                 SameFraction(rungs[i].position.y, HelixY(h, i - 1, Len(rungs)))]_vars

(***************************************************************************)
(* Claims about validateData (SpecValidate).                               *)
(***************************************************************************)

\* C6 (as claimed): validate throws for no parsed value; it returns the
\* empty sequence for the empty array and for every value that is no array.
C6_ValidateNeverThrows ==
  vpc = "done" =>
    /\ ~vOut.threw
    /\ (vIn.kind # "array" \/ vIn.items = <<>>) => vOut.value = <<>>

\* every one of the six fields is there, whatever its value
AllPresent(e) == \A k \in RequiredFields : Get(e, k) # Undefined

\* C7 (as claimed): for every input array validate returns exactly the
\* entries in which the six fields are all present, in their order and with
\* duplicates kept.
C7_KeepsExactlyComplete ==
  (vpc = "done" /\ vIn.kind = "array") =>
    /\ ~vOut.threw
    /\ vOut.value = SelectSeq(vIn.items, AllPresent)

(***************************************************************************)
(* Claims about the controller (SpecOrbit).                                *)
(***************************************************************************)

\* dispose() has run: nothing else removes the element's listeners
Disposed == "mousedown" \notin elemListeners

\* C2 (as claimed): a press changes the mode only from idle: to rotating for
\* the primary button with enableRotate set, to panning for the middle or
\* secondary button with enablePan set; any other press, and any press
\* while rotating or panning, leaves the mode as it was.
C2_PressOnlyFromIdle ==
  [][\A b \in Buttons : \A p \in Pointers :
       MouseDownEvent(b, p.x, p.y) =>
         \/ orbit'.state = orbit.state
         \/ /\ orbit.state = "none" /\ b = 0 /\ orbit.enableRotate
            /\ orbit'.state = "rotate"
         \/ /\ orbit.state = "none" /\ b \in {1, 2} /\ orbit.enablePan
            /\ orbit'.state = "pan"]_vars

\* C2 (amended): a press the controller receives, in any mode, sets the mode
\* by its button: rotating for the primary button if enableRotate is set,
\* panning for the middle or secondary button if enablePan is set; a press
\* whose gate is off (or of another button, or with enabled off) leaves
\* the mode as it was.  The mode changes in no other way than by a press,
\* a release or reset().
C2_PressSetsModeByButton ==
  [][/\ \A b \in Buttons : \A p \in Pointers :
          (MouseDownEvent(b, p.x, p.y) /\ ~Disposed) =>
            orbit'.state =
              IF orbit.enabled /\ b = 0 /\ orbit.enableRotate THEN "rotate"
              ELSE IF orbit.enabled /\ b \in {1, 2} /\ orbit.enablePan THEN "pan"
              ELSE orbit.state
     /\ (orbit'.state # orbit.state /\ orbit'.state # "none") =>
          \E b \in Buttons : \E p \in Pointers : MouseDownEvent(b, p.x, p.y)]_vars

\* C2's case: presses have acted on a live controller: it is panning from
\* the position of a middle or secondary press, and the anchor of a primary
\* press is recorded as well.
C2_Witness ==
  /\ orbit.state = "pan"
  /\ orbit.rotateStart = Pos(2, 200)
  /\ orbit.panStart = Pos(2, 200)
  /\ ~Disposed

\* C3: while the controller is rotating or panning (and dispose() has not
\* released its listeners) a release anywhere in the document returns it
\* to idle; and in idle no pointer movement adds to the pending rotation or
\* the pending pan.
C3_ReleaseEndsDrag ==
  [][/\ (MouseUpEvent /\ orbit.state # "none" /\ ~Disposed) =>
          /\ orbit'.state = "none"
          /\ docListeners' \cap DocumentEvents = {}
     /\ \A p \in Pointers :
          (MouseMoveEvent(p.x, p.y) /\ orbit.state = "none") =>
            /\ orbit'.sphericalDelta = orbit.sphericalDelta
            /\ orbit'.panOffset = orbit.panOffset]_vars

\* C3's case: a drag that left a rotation pending has been ended by a
\* release (reset() would have cleared the rotation, dispose() the
\* element's listeners).
C3_Witness ==
  /\ orbit.state = "none"
  /\ docListeners = {}
  /\ ~Disposed
  /\ orbit.sphericalDelta.theta # 0

\* C4: dispose() leaves no listener on the element or on document, in
\* whatever mode it is called, and none is registered afterwards; from then
\* on no mousedown, mousemove, mouseup, wheel or contextmenu event changes
\* any field of the controller.
C4_DisposeReleasesAll ==
  [][/\ Dispose => (elemListeners' = {} /\ docListeners' = {})
     /\ Disposed => (elemListeners' = {} /\ docListeners = {} /\ docListeners' = {})
     /\ Disposed =>
          /\ \A b \in Buttons : \A p \in Pointers :
               MouseDownEvent(b, p.x, p.y) => UNCHANGED orbit
          /\ \A p \in Pointers : MouseMoveEvent(p.x, p.y) => UNCHANGED orbit
          /\ MouseUpEvent => UNCHANGED orbit
          /\ \A d \in WheelDeltas : WheelEvent(d) => UNCHANGED orbit
          /\ ContextMenuEvent => UNCHANGED orbit]_vars

\* C4's case: dispose() was called in the middle of a drag that had a
\* rotation pending.
C4_Witness ==
  /\ Disposed
  /\ orbit.state = "rotate"
  /\ orbit.sphericalDelta.theta # 0

(***************************************************************************)
(* Claims about the helix a build produces (Spec).                         *)
(***************************************************************************)
RungsOf(g)     == SelectSeq(g.children, LAMBDA c : c.kind = "rung")
BackbonesOf(g) == SelectSeq(g.children, LAMBDA c : c.kind = "backbone")
EffectsOf(g)   == SelectSeq(g.children, LAMBDA c : c.kind \in {"pulse", "outerPulse"})

\* C11 (as claimed): a helix built from no segment has zero connectors and
\* two backbone curves.
C11_EmptyHelixHasBackbones ==
  \A g \in scene : Len(RungsOf(g)) = 0 => Len(BackbonesOf(g)) = 2

\* a/b > c/d, for fractions with positive denominators
GreaterFraction(p, q) == p[1] * q[2] > q[1] * p[2]

\* The group this step builds is a helix of data: two backbones first, one
\* rung per segment, the k-th rung made from the k-th segment at winding
\* position t = (k-1)/N, each rung lower than the one before it.
BuildsHelixOf(data) ==
  (nextId' = nextId + 1 /\ Len(data) > 0) =>
    \E g \in scene' :
      LET rungs == RungsOf(g)
          N == Len(data)
      IN /\ g.id = nextId
         /\ Len(BackbonesOf(g)) = 2
         /\ g.children[1].kind = "backbone" /\ g.children[2].kind = "backbone"
         /\ Len(rungs) = N
         /\ \A k \in 1..N :
              /\ rungs[k].seg = data[k]
              /\ SameFraction(rungs[k].a.a, <<config["helixTurns"] * (k - 1), N>>)
         /\ \A k \in 1..(N - 1) :
              GreaterFraction(rungs[k].position.y, rungs[k + 1].position.y)

\* Every operation of the facade records its name in lastCall, so a step is
\* told by lastCall'.op.
\* C12: every build from a non-empty sequence of N segments gives exactly
\* two backbones and N connectors, the k-th connector made from the k-th
\* segment at t = (k-1)/N, with connector heights strictly decreasing: the
\* input order is the winding order.
C12_OrderPreserved ==
  [][/\ lastCall'.op = "rebuildDNA" =>
          \A data \in DirectData : RebuildDNA(data) => BuildsHelixOf(data)
     /\ (lastCall'.op = "updateVisualization" /\ lastLoadedData.set) =>
          BuildsHelixOf(filterSegmentsByType(lastLoadedData.segs, selectedType))
     /\ (lastCall'.op = "loadFromText" /\ lastCall'.result = "group") =>
          BuildsHelixOf(filterSegmentsByType(lastLoadedData'.segs, selectedType))]_vars

\* C12's case: a helix of three segments of two types is on display, in
\* the order of the payload.
C12_Witness ==
  \E g \in scene :
    /\ g.id = dnaGroup
    /\ Len(RungsOf(g)) = 3
    /\ RungsOf(g)[1].seg = SegOptimal10
    /\ RungsOf(g)[2].seg = SegNegative2
    /\ RungsOf(g)[3].seg = SegOptimal6

\* the helix g is built from the one segment {optimal, 0, 10, 100, 110, 10}
OfSingleOptimal10(g) == Len(RungsOf(g)) = 1 /\ RungsOf(g)[1].seg = SegOptimal10

\* C13 (as claimed): the helix of the single segment {optimal, 0, 10, 100,
\* 110, 10} has exactly one pulse effect.
C13_OnePulse ==
  \A g \in scene : OfSingleOptimal10(g) => Len(EffectsOf(g)) = 1

\* C13 (amended): the helix of that single segment has exactly two pulse
\* effects, the pulse (10 > 5) and the outer pulse (10 > 8), both at the
\* connector's position.
C13_TwoPulses ==
  \A g \in scene :
    OfSingleOptimal10(g) =>
      /\ Len(EffectsOf(g)) = 2
      /\ EffectsOf(g)[1].kind = "pulse"
      /\ EffectsOf(g)[2].kind = "outerPulse"
      /\ \A k \in 1..2 : EffectsOf(g)[k].position = RungsOf(g)[1].position

\* C13's case: the helix on display is built from that single segment.
C13_Witness ==
  \E g \in scene : g.id = dnaGroup /\ OfSingleOptimal10(g) /\ Len(g.children) = 5

(***************************************************************************)
(* Claims about filterSegmentsByType (SpecFilter).                         *)
(***************************************************************************)
\* the positions of data whose segment_type is the string type
Matching(data, type) ==
  {i \in 1..Len(data) : Get(data[i], "segment_type").t = "string"
                          /\ Get(data[i], "segment_type").s = type}

\* the j-th smallest member of the set of positions K
Nth(K, j) == CHOOSE i \in K : Cardinality({m \in K : m <= i}) = j

\* C14: filterSegmentsByType(data, "all") returns the elements of data in
\* their order; for another type it returns exactly the elements whose
\* segment_type equals the type, in their relative order; the call leaves
\* data as it was.
C14_FilterExact ==
  [][Filter =>
       /\ fIn' = fIn
       /\ IF fIn.type = "all"
          THEN fOut' = fIn.data
          ELSE LET K == Matching(fIn.data, fIn.type)
               IN /\ Len(fOut') = Cardinality(K)
                  /\ \A j \in 1..Len(fOut') : fOut'[j] = fIn.data[Nth(K, j)]]_vars

\* C14's case: a filter by type has dropped the middle one of three
\* segments and kept the other two in their order.
C14_Witness ==
  /\ fpc = "done"
  /\ fIn = [data |-> <<SegOptimal6, SegNegative2, SegOptimal10>>, type |-> "optimal"]
  /\ fOut = <<SegOptimal6, SegOptimal10>>

(***************************************************************************)
(* Claims about calculateStats (SpecStats).                                *)
(***************************************************************************)
\* the dataset calculateStats works on: its argument, or the loaded data
\* when the argument is left out
StatsDataset == IF sIn.data.set THEN sIn.data ELSE sIn.loaded

\* C16: on a non-empty dataset calculateStats returns totalSegments equal
\* to the number of segments, typeCounts giving each type met the number of
\* its segments, and volatility the mean of |pct_change| to the nearest
\* hundredth, written with two decimals and a percent sign; on an empty or
\* absent dataset it returns the no-data value.  The spec's example
\* (optimal 4, negative -2) gives 2, {optimal: 1, negative: 1}, "3.00%".
C16_StatsExact ==
  spc = "done" =>
    LET q == StatsDataset.segs
        N == Len(q)
        types == {Get(q[i], "segment_type").s : i \in 1..N}
    IN /\ IF ~StatsDataset.set \/ N = 0
          THEN sOut = NoStats
          ELSE LET v == sOut.volatility
                   hundredths == 100 * v.number.whole + v.number.digits
               IN /\ ~sOut.none
                  /\ sOut.totalSegments = N
                  /\ DOMAIN sOut.typeCounts = types
                  /\ \A t \in types :
                       sOut.typeCounts[t] =
                         Cardinality({i \in 1..N : Get(q[i], "segment_type").s = t})
                  /\ v.suffix = "%"
                  /\ v.number.digits \in 0..99
                  /\ 2 * Abs(hundredths * N - 100 * SumAbs(q)) <= N
       /\ q = <<SegOptimal4, SegNegative2>> =>
            /\ sOut.totalSegments = 2
            /\ sOut.typeCounts = [t \in {"optimal", "negative"} |-> 1]
            /\ sOut.volatility = [number |-> [whole |-> 3, digits |-> 0], suffix |-> "%"]

\* C16's case: the stats of three segments of two types with falls among
\* them, whose mean (2 + 9 + 10) / 3 = 7 is a whole number.
C16_Witness ==
  /\ spc = "done"
  /\ sIn.data = Data(<<SegNegative2, SegNegative9, SegOptimal10>>)
  /\ sOut.totalSegments = 3
  /\ sOut.volatility.number = [whole |-> 7, digits |-> 0]

(***************************************************************************)
(* Claims about the stored dataset (Spec).                                 *)
(***************************************************************************)
\* C15: lastLoadedData is replaced only by a load that succeeds, and then
\* by every validated segment of the payload, whatever type is selected;
\* setSelectedType, setConfig, updateVisualization, rebuildDNA and a load
\* that fails leave it as it was; and updateVisualization under "all"
\* builds the helix from every stored segment.
C15_StoredDatasetUnfiltered ==
  [][/\ lastCall'.op = "loadFromText" =>
          \A text \in Texts :
            LoadFromText(text) =>
              lastLoadedData' =
                IF lastCall'.result = "group"
                THEN Data(validateData(JSONParse(text).value).value)
                ELSE lastLoadedData
     /\ lastCall'.op # "loadFromText" => lastLoadedData' = lastLoadedData
     /\ (lastCall'.op = "updateVisualization" /\ selectedType = "all"
           /\ nextId' = nextId + 1) =>
          \E g \in scene' :
            /\ g.id = nextId
            /\ Len(RungsOf(g)) = Len(lastLoadedData.segs)
            /\ \A k \in 1..Len(lastLoadedData.segs) :
                 RungsOf(g)[k].seg = lastLoadedData.segs[k]]_vars

\* C15's case: data of two types was loaded, and after a later
\* updateVisualization under "all" the helix shows all three segments.
C15_Witness ==
  /\ lastCall.op = "updateVisualization"
  /\ selectedType = "all"
  /\ lastLoadedData = Data(<<SegOptimal10, SegNegative2, SegOptimal6>>)
  /\ nextId > 2
  /\ \E g \in scene : g.id = dnaGroup /\ Len(RungsOf(g)) = 3

(***************************************************************************)
(* Claims about update() and the accumulators (SpecOrbit).                 *)
(***************************************************************************)
NoDelta == [theta |-> 0, phi |-> 0]

\* the step is an update(): nothing else counts a tick
IsUpdate == ticks' = ticks + 1

\* C17: after every update() the pending azimuth and polar deltas are 0,
\* the pending pan offset is the zero vector and the pending zoom scale is
\* 1 (exponent 0); and that update has applied what was pending: the target
\* has moved by the pan offset, the radius is scaled by the pending scale
\* and the azimuth has turned by the pending delta (with the auto-rotation
\* step of that tick).
C17_AppliedThenCleared ==
  [][IsUpdate =>
       /\ orbit'.sphericalDelta = NoDelta
       /\ orbit'.panOffset = ZeroVec
       /\ orbit'.scale = 0
       /\ camera'.target = AddVec(camera.target, orbit.panOffset)
       /\ camera.anchor = camera.target =>
            /\ camera'.sph.theta =
                 WrapTheta(camera.sph.theta) + orbit.sphericalDelta.theta - autoRotation
            /\ camera'.sph.radius =
                 Length(camera.sph.radius.base, camera.sph.radius.exp + orbit.scale)]_vars

\* C17's case: an update has applied the rotation of a drag and left no
\* delta pending.
C17_Witness ==
  /\ ticks = 1
  /\ inputs = 1
  /\ ~orbit.autoRotate
  /\ camera.sph.theta = 0 - 1200
  /\ orbit.sphericalDelta = NoDelta

\* the fields a caller configures, which no handler writes
Settings ==
  {"enabled", "enableZoom", "zoomSpeed", "enableRotate", "rotateSpeed",
   "enablePan", "panSpeed", "autoRotate", "autoRotateSpeed"}

\* the step leaves the camera, the target and the settings as they were
HandlerFrame == camera' = camera /\ \A f \in Settings : orbit'[f] = orbit[f]

\* C18: a press, a move, a release, a wheel or a context-menu event leaves
\* the camera position and the target (and the settings) as they were,
\* whatever it does to the mode, the anchors and the accumulators; the
\* camera and the target change in update() or reset() only.  (Stated by
\* contraposition: a step that changes any of them is no event.)
C18_HandlersLeaveCamera ==
  [][/\ ~HandlerFrame =>
          /\ \A b \in Buttons : \A p \in Pointers : ~MouseDownEvent(b, p.x, p.y)
          /\ \A p \in Pointers : ~MouseMoveEvent(p.x, p.y)
          /\ ~MouseUpEvent
          /\ \A d \in WheelDeltas : ~WheelEvent(d)
          /\ ~ContextMenuEvent
     /\ camera' # camera => (Update \/ Reset)]_vars

\* C18's case: a pan drag has a pan offset pending and the camera is where
\* the constructor left it.
C18_Witness ==
  /\ orbit.state = "pan"
  /\ orbit.panOffset # ZeroVec
  /\ inputs > 0
  /\ ticks = 0
  /\ camera = CameraInit

\* C19: a move received while rotating adds exactly
\* -2 pi rotateSpeed (x - previous sample x) / clientHeight to the pending
\* azimuth delta and makes its own position the previous sample; an update
\* during the drag moves the whole pending delta into the camera's azimuth,
\* leaves none pending and leaves the previous sample alone: applied plus
\* pending azimuth is the same before and after the tick.
C19_RotationSummed ==
  [][/\ \A p \in Pointers :
          (MouseMoveEvent(p.x, p.y) /\ "mousemove" \in docListeners
             /\ orbit.enabled /\ orbit.state = "rotate") =>
            /\ orbit'.sphericalDelta.theta =
                 orbit.sphericalDelta.theta
                   - (FullTurn * orbit.rotateSpeed * (p.x - orbit.rotateStart.x))
                       \div ClientHeight
            /\ orbit'.rotateStart = p
     /\ (IsUpdate /\ orbit.state = "rotate" /\ camera.anchor = camera.target) =>
          /\ camera'.sph.theta + orbit'.sphericalDelta.theta =
               WrapTheta(camera.sph.theta) + orbit.sphericalDelta.theta
          /\ orbit'.sphericalDelta.theta = 0
          /\ orbit'.rotateStart = orbit.rotateStart]_vars

\* C19's case: a tick in the middle of a drag consumed the first move
\* (2 pixels, 1200 units), and a second move back is pending.
C19_Witness ==
  /\ orbit.state = "rotate"
  /\ ticks = 1
  /\ inputs = 2
  /\ camera.sph.theta = 0 - 1200
  /\ orbit.sphericalDelta.theta = 1200

\* C20: after every update(), whatever polar delta was pending, the polar
\* angle lies in [0.01, pi - 0.01].
C20_PolarClamped ==
  [][IsUpdate =>
       /\ camera'.sph.phi >= EpsPhi
       /\ camera'.sph.phi <= HalfTurn - EpsPhi]_vars

\* C20's case: an update met a polar delta that would have taken the
\* camera past the upper pole and left the angle at the bound.
C20_Witness ==
  /\ ticks = 1
  /\ inputs > 0
  /\ camera.sph.phi = EpsPhi

\* C21: an update() turns the azimuth by the pending delta and, exactly when
\* autoRotate is set and the mode is idle, by a further
\* -(2 pi / 60 / 60) autoRotateSpeed: nothing is injected on a tick while
\* rotating or panning, and the step is injected on a tick after the
\* release.
C21_AutoRotateOnlyIdle ==
  [][(IsUpdate /\ camera.anchor = camera.target) =>
       LET turned == WrapTheta(camera.sph.theta) + orbit.sphericalDelta.theta
       IN /\ (orbit.autoRotate /\ orbit.state = "none") =>
               camera'.sph.theta = turned - AutoRotateStep * orbit.autoRotateSpeed
          /\ (~orbit.autoRotate \/ orbit.state \in {"rotate", "pan"}) =>
               camera'.sph.theta = turned]_vars

\* C21's case: with autoRotate set, a press, a tick, the release and a
\* second tick have turned the azimuth by one auto-rotate step (200 units
\* at speed 2), not by two.
C21_Witness ==
  /\ orbit.autoRotate
  /\ orbit.state = "none"
  /\ docListeners = {}
  /\ orbit.rotateStart = Pos(2, 200)
  /\ inputs = 0
  /\ ticks = 2
  /\ camera.sph.theta = 0 - 200

\* the move is handled by _onMouseMove past its `enabled` test
MoveHandled == "mousemove" \in docListeners /\ orbit.enabled

\* C22 (as claimed): a move while panning adds to the pending pan offset the
\* pixel displacement since the last sample times the camera-to-target
\* distance times panSpeed (times 0.002): -dx on x and +dy on y.
C22_PanScaledByPanSpeed ==
  [][\A p \in Pointers :
       (MouseMoveEvent(p.x, p.y) /\ MoveHandled /\ orbit.state = "pan") =>
         /\ orbit'.panOffset.x =
              Plus(orbit.panOffset.x, Distance, (orbit.panStart.x - p.x) * orbit.panSpeed)
         /\ orbit'.panOffset.y =
              Plus(orbit.panOffset.y, Distance, (p.y - orbit.panStart.y) * orbit.panSpeed)]_vars

\* the wheel event is handled by _onMouseWheel
WheelHandled == "wheel" \in elemListeners

\* C23 (as claimed): a handled wheel event with positive delta multiplies
\* the pending scale by 0.95^zoomSpeed (exponent + zoomSpeed) and one with
\* negative delta divides it by 0.95^zoomSpeed (exponent - zoomSpeed), when
\* enabled and enableZoom are set.
C23_PositiveDeltaMultiplies ==
  [][\A d \in WheelDeltas :
       (WheelEvent(d) /\ WheelHandled /\ orbit.enabled /\ orbit.enableZoom) =>
         orbit'.scale = IF d > 0 THEN orbit.scale + orbit.zoomSpeed
                        ELSE IF d < 0 THEN orbit.scale - orbit.zoomSpeed
                        ELSE orbit.scale]_vars

\* C23 (amended): a handled wheel event, in any mode, changes nothing but
\* the pending scale: a positive delta divides it by 0.95^zoomSpeed
\* (exponent - zoomSpeed, the radius will grow), a negative delta
\* multiplies it by 0.95^zoomSpeed (exponent + zoomSpeed), and a zero
\* delta, enableZoom off or enabled off leaves it; the next update()
\* multiplies the radius by the pending scale once and clears it.
C23_PositiveDeltaDivides ==
  [][/\ \A d \in WheelDeltas :
          (WheelEvent(d) /\ WheelHandled) =>
            /\ orbit'.scale =
                 IF ~orbit.enabled \/ ~orbit.enableZoom \/ d = 0 THEN orbit.scale
                 ELSE IF d > 0 THEN orbit.scale - orbit.zoomSpeed
                 ELSE orbit.scale + orbit.zoomSpeed
            /\ orbit' = [orbit EXCEPT !.scale = orbit'.scale]
            /\ camera' = camera
     /\ (IsUpdate /\ camera.anchor = camera.target) =>
          /\ camera'.sph.radius =
               Length(camera.sph.radius.base, camera.sph.radius.exp + orbit.scale)
          /\ orbit'.scale = 0]_vars

\* C23's case: two zoom-out wheel events received during a drag were
\* applied to the radius by one update: 1 / 0.95^2 of the first distance.
C23_Witness ==
  /\ orbit.state = "rotate"
  /\ inputs = 2
  /\ ticks = 1
  /\ orbit.zoomSpeed = 1
  /\ orbit.scale = 0
  /\ camera.sph.radius = Length(0, 0 - 2)

\* the number of pulse effects of g at the position of its rung r
EffectsAt(g, r) ==
  Cardinality({j \in 1..Len(g.children) :
                 /\ g.children[j].kind \in {"pulse", "outerPulse"}
                 /\ g.children[j].position = r.position})

\* the number of rungs of g whose |pct_change| exceeds the threshold
RungsOver(g, threshold) ==
  Cardinality({k \in 1..Len(RungsOf(g)) :
                 Abs(Get(RungsOf(g)[k].seg, "pct_change").n) > threshold})

\* C24 (as claimed): in every helix built, each connector has 0 pulse
\* effects at its position when |pct_change| <= 5, 1 when
\* 5 < |pct_change| <= 8 and 2 when |pct_change| > 8; and the helix of N
\* segments has 2 + N + #{|pct_change| > 5} + #{|pct_change| > 8}
\* primitives.
C24_PrimitiveCount ==
  \A g \in scene :
    /\ \A k \in 1..Len(RungsOf(g)) :
         LET r == RungsOf(g)[k]
             a == Abs(Get(r.seg, "pct_change").n)
         IN EffectsAt(g, r) = IF a > 8 THEN 2 ELSE IF a > 5 THEN 1 ELSE 0
    /\ Len(g.children) = 2 + Len(RungsOf(g)) + RungsOver(g, 5) + RungsOver(g, 8)

\* the tick's only pending input is a pan offset
OnlyPanPending ==
  /\ orbit.panOffset # ZeroVec
  /\ orbit.sphericalDelta = NoDelta
  /\ orbit.scale = 0

\* the tick moves camera and target by the pending pan offset and leaves
\* the offset between them (radius, polar angle, azimuth) as it was
TranslatedByPan ==
  /\ camera'.target = AddVec(camera.target, orbit.panOffset)
  /\ camera'.anchor = AddVec(camera.anchor, orbit.panOffset)
  /\ camera'.sph.radius = camera.sph.radius
  /\ camera'.sph.phi = camera.sph.phi
  /\ WrapTheta(camera'.sph.theta) = WrapTheta(camera.sph.theta)

\* C25 (as claimed): a tick whose only pending input is a pan offset
\* translates the camera and the target by that offset and leaves the
\* camera-to-target offset unchanged; no step alters the target's z.
C25_PanTickTranslates ==
  [][/\ (IsUpdate /\ OnlyPanPending /\ camera.anchor = camera.target) => TranslatedByPan
     /\ camera'.target.z = camera.target.z]_vars

\* C25 (amended): the same, for a tick on which no auto-rotation is
\* injected (autoRotate off, or the mode not idle); a pending pan never has
\* a z component and no step alters the target's z.
C25_PanTickTranslatesUnlessAuto ==
  [][/\ (IsUpdate /\ OnlyPanPending /\ camera.anchor = camera.target
           /\ ~(orbit.autoRotate /\ orbit.state = "none")) => TranslatedByPan
     /\ orbit'.panOffset.z = ZeroSum
     /\ camera'.target.z = camera.target.z]_vars

\* C25's case: a tick has applied a pan: the target is off the origin, the
\* camera has followed it and the offset is the constructor's.
C25_Witness ==
  /\ ticks = 1
  /\ inputs = 1
  /\ camera.target # ZeroVec
  /\ camera.anchor = camera.target
  /\ camera.sph = CameraInit.sph

\* C26: unless dispose() has run, whenever the mode is rotating or panning
\* the document's mouseup (and mousemove) listener is registered; a handled
\* release leaves the mode idle and neither document listener registered;
\* and only a press registers a document listener.
C26_ReleaseListenerWhileDragging ==
  [][/\ (~Disposed' /\ orbit'.state \in {"rotate", "pan"}) =>
          DocumentEvents \subseteq docListeners'
     /\ (MouseUpEvent /\ "mouseup" \in docListeners) =>
          (orbit'.state = "none" /\ docListeners' = {})
     /\ ~(docListeners' \subseteq docListeners) =>
          \E b \in Buttons : \E p \in Pointers : MouseDownEvent(b, p.x, p.y)]_vars

\* C26's case: after a move and a tick the controller is still panning
\* with both document listeners registered.
C26_Witness ==
  /\ ~Disposed
  /\ orbit.state = "pan"
  /\ docListeners = DocumentEvents
  /\ inputs > 0
  /\ ticks > 0

====
